---- MODULE Spec2Model ----
(***************************************************************************)
(* Model of src/open-ai-embedding.py: ingestion of a text corpus into a    *)
(* flat L2 vector index persisted as two files (content.index and          *)
(* embedded_chunks.pkl), similarity search over the persisted pair, answer *)
(* synthesis, and the interactive read loop started by the main block.     *)
(*                                                                         *)
(* Texts and input lines are sequences of one-character strings.  An       *)
(* embedding is a vector of dimension 1 with an integer coordinate; the L2 *)
(* distance of the flat index is the squared difference.  The embedding    *)
(* and generation services and the file system are the environment: each   *)
(* call may fail.  The embedding service is a function of the text sent;   *)
(* the model takes the number of "b" characters, capped at MaxCoord.       *)
(***************************************************************************)
EXTENDS Integers, Sequences, FiniteSets, TLC

\* Bounds of the model.  max_chunk_size is 10000 in the source; the model
\* explores the values 1..MaxChunkSize over texts of up to MaxLen characters.
MaxLen == 3          \* longest corpus text, in characters
MaxChunkSize == 2    \* largest value of max_chunk_size explored
MaxCoord == 1        \* embedding coordinates range over 0..MaxCoord
MaxSearches == 2     \* search calls explored in one process lifetime

Alphabet == {"a", "b"}
Texts == UNION {[1..n -> Alphabet] : n \in 0..MaxLen}
Vectors == 0..MaxCoord

Min(a, b) == IF a < b THEN a ELSE b

\* Python slice s[lo:hi] with 0 <= lo <= hi (0-based, hi exclusive, clipped).
Slice(s, lo, hi) == SubSeq(s, lo + 1, Min(hi, Len(s)))

\* str(n) for n >= 0, as a sequence of digit characters.
Digit(d) == <<"0", "1", "2", "3", "4", "5", "6", "7", "8", "9">>[d + 1]
RECURSIVE Str(_)
Str(n) == IF n < 10 THEN <<Digit(n)>> ELSE Str(n \div 10) \o <<Digit(n % 10)>>

\* The literal 'full'.
Full == <<"f", "u", "l", "l">>

\* text.replace("\n", " ") of get_embedding.
NormalizeNewlines(text) ==
    [j \in 1..Len(text) |-> IF text[j] = "\n" THEN " " ELSE text[j]]

\* The vector the embedding service computes for the text sent to it.
Embedding(sent) ==
    Min(Cardinality({j \in 1..Len(sent) : sent[j] = "b"}), MaxCoord)

\* get_embedding: the vectors a call may return.  The service rejects an
\* empty input string; any call may also fail (network, rate limit), which
\* the callers below model as a separate outcome.
GetEmbedding(text) ==
    IF NormalizeNewlines(text) = <<>> THEN {} ELSE {Embedding(NormalizeNewlines(text))}

\* The files of the artifact pair on disk.
Absent == [kind |-> "absent", data |-> <<>>]
Corrupt == [kind |-> "corrupt", data |-> <<>>]
IndexFile(vectors) == [kind |-> "index", data |-> vectors]
PickleFile(chunks) == [kind |-> "pickle", data |-> chunks]

\* A variant of the split that keeps only the full windows.
SplitChunksDropTail(content, size) ==
    [j \in 1..(Len(content) \div size) |->
        Slice(content, (j - 1) * size, (j - 1) * size + size)]
\* chunks = [content[i:i+max_chunk_size] for i in range(0, len(content), max_chunk_size)]
SplitChunks(content, size) ==
    [j \in 1..((Len(content) + size - 1) \div size) |->
        Slice(content, (j - 1) * size, (j - 1) * size + size)]

\* The chunk texts of a run: the windows when the content exceeds the
\* maximum size, the whole content as the single chunk otherwise.
ChunkTexts(content, size) ==
    IF Len(content) > size THEN SplitChunks(content, size) ELSE <<content>>

\* A variant that numbers the chunk of the single-chunk branch as well.
EmbeddedChunksNumbered(content, size, emb) ==
    [j \in 1..Len(emb) |->
        [chunk_id |-> Str(j),
         text |-> ChunkTexts(content, size)[j],
         embedding |-> emb[j]]]
\* embedded_chunks as built from the embeddings obtained so far: numbered
\* chunks in the branch that splits, the chunk 'full' in the other.
EmbeddedChunks(content, size, emb) ==
    IF Len(content) > size
    THEN [j \in 1..Len(emb) |->
            [chunk_id |-> Str(j),
             text |-> SplitChunks(content, size)[j],
             embedding |-> emb[j]]]
    ELSE [j \in 1..Len(emb) |->
            [chunk_id |-> Full, text |-> content, embedding |-> emb[j]]]

\* A variant that adds the embeddings in reverse list order.
StoreInFaissReversed(embedded_chunks) ==
    [j \in 1..Len(embedded_chunks) |->
        embedded_chunks[Len(embedded_chunks) + 1 - j].embedding]
\* store_in_faiss: the flat index holds the embeddings in list order.
StoreInFaiss(embedded_chunks) ==
    [j \in 1..Len(embedded_chunks) |-> embedded_chunks[j].embedding]

\* The record of one ingestion run.
Run(ret, fault, chunks, embedded_chunks, idx, pkl) ==
    [ran |-> TRUE, ret |-> ret, fault |-> fault, chunks |-> chunks,
     embedded_chunks |-> embedded_chunks, index_file |-> idx, chunks_file |-> pkl]
NoRun == [ran |-> FALSE, ret |-> FALSE, fault |-> "none", chunks |-> <<>>,
          embedded_chunks |-> <<>>, index_file |-> Absent, chunks_file |-> Absent]

\* process_content_file: every outcome of one run over the given corpus and
\* files.  A fault is the step whose exception reaches the except clause.
ProcessContentFile(content, size, idx, pkl) ==
    LET texts == ChunkTexts(content, size)
        n == Len(texts)
        Prefixes(m) == {vs \in [1..m -> Vectors] :
                          \A j \in 1..m : vs[j] \in GetEmbedding(texts[j])}
    IN  \* open/read of content.txt fails
        {Run(FALSE, "read", <<>>, <<>>, idx, pkl)}
        \cup
        \* the embedding call of chunk m+1 fails
        {Run(FALSE, "embed", texts, EmbeddedChunks(content, size, vs), idx, pkl) :
            vs \in UNION {Prefixes(m) : m \in 0..(n - 1)}}
        \cup
        UNION {
          LET ec == EmbeddedChunks(content, size, vs)
              index == StoreInFaiss(ec)
          IN {\* store_in_faiss or os.makedirs fails, or the index file cannot be opened
              Run(FALSE, "store", texts, ec, idx, pkl),
              Run(FALSE, "makedirs", texts, ec, idx, pkl),
              Run(FALSE, "write_index", texts, ec, idx, pkl),
              \* faiss.write_index fails part-way
              Run(FALSE, "write_index", texts, ec, Corrupt, pkl),
              \* open(embedded_chunks.pkl, "wb") fails
              Run(FALSE, "write_chunks", texts, ec, IndexFile(index), pkl),
              \* pickle.dump fails after the file was truncated
              Run(FALSE, "write_chunks", texts, ec, IndexFile(index), Corrupt),
              Run(TRUE, "none", texts, ec, IndexFile(index), PickleFile(ec))}
          : vs \in Prefixes(n)}

\* index.search of the flat L2 index (the FAISS library): the top_k nearest
\* stored vectors by ascending distance, equal distances by ascending
\* position, padded with position -1 when fewer than top_k are stored.
Dist(v, q) == (v - q) * (v - q)
NoDist == MaxCoord * MaxCoord + 1
Nearest(index, q) ==
    LET count == Len(index)
        Before(p, r) == \/ Dist(index[p + 1], q) < Dist(index[r + 1], q)
                        \/ /\ Dist(index[p + 1], q) = Dist(index[r + 1], q)
                           /\ p < r
    IN  [n \in 1..count |->
            CHOOSE r \in 0..(count - 1) :
                Cardinality({p \in 0..(count - 1) : Before(p, r)}) = n - 1]
IndexSearch(index, q, top_k) ==
    [n \in 1..top_k |->
        IF n <= Len(index)
        THEN [idx |-> Nearest(index, q)[n],
              dist |-> Dist(index[Nearest(index, q)[n] + 1], q)]
        ELSE [idx |-> -1, dist |-> NoDist]]

\* A variant that keeps the loaded pair and reads the files once.
LoadFaissIndexCached(idx, pkl, n_loads) ==
    IF idx.kind = "index" /\ pkl.kind = "pickle"
    THEN [ok |-> TRUE, index |-> idx.data, embedded_chunks |-> pkl.data,
          printed |-> {}, n_loads |-> IF n_loads > 0 THEN n_loads ELSE n_loads + 1]
    ELSE [ok |-> FALSE, index |-> <<>>, embedded_chunks |-> <<>>,
          printed |-> {"Error loading FAISS index"}, n_loads |-> n_loads + 1]
\* A variant that also fails when the two counts differ.
LoadFaissIndexCounted(idx, pkl, n_loads) ==
    IF /\ idx.kind = "index"
       /\ pkl.kind = "pickle"
       /\ Len(pkl.data) = Len(idx.data)
    THEN [ok |-> TRUE, index |-> idx.data, embedded_chunks |-> pkl.data,
          printed |-> {}, n_loads |-> n_loads + 1]
    ELSE [ok |-> FALSE, index |-> <<>>, embedded_chunks |-> <<>>,
          printed |-> {"Error loading FAISS index"}, n_loads |-> n_loads + 1]
\* load_faiss_index: (index, embedded_chunks), or (None, None) with a
\* diagnostic when reading either file raises.  n_loads counts the
\* executions of the function, each of which reads the files.
LoadFaissIndex(idx, pkl, n_loads) ==
    IF idx.kind = "index" /\ pkl.kind = "pickle"
    THEN [ok |-> TRUE, index |-> idx.data, embedded_chunks |-> pkl.data,
          printed |-> {}, n_loads |-> n_loads + 1]
    ELSE [ok |-> FALSE, index |-> <<>>, embedded_chunks |-> <<>>,
          printed |-> {"Error loading FAISS index"}, n_loads |-> n_loads + 1]

\* The record of one call of search_similar_chunks.
Searched(query, top_k, exc, loaded, embedded, hits, results, printed, n_loads) ==
    [called |-> TRUE, query |-> query, top_k |-> top_k, raised |-> exc,
     loaded |-> loaded, embedded |-> embedded, hits |-> hits,
     results |-> results, printed |-> printed, n_loads |-> n_loads]
NoSearch == [called |-> FALSE, query |-> <<>>, top_k |-> 0, raised |-> FALSE,
             loaded |-> FALSE, embedded |-> FALSE, hits |-> <<>>,
             results |-> <<>>, printed |-> {}, n_loads |-> 0]

\* The results loop of search_similar_chunks: the hits whose position is a
\* valid position of embedded_chunks, joined with that chunk; the similarity
\* 1.0 / (1.0 + distance) is kept as the fraction <<1, 1 + distance>>.
Results(hits, embedded_chunks) ==
    LET Valid(h) == h.idx < Len(embedded_chunks) /\ h.idx >= 0
        kept == SelectSeq(hits, Valid)
    IN  [n \in 1..Len(kept) |->
            [chunk_id |-> embedded_chunks[kept[n].idx + 1].chunk_id,
             text |-> embedded_chunks[kept[n].idx + 1].text,
             similarity |-> <<1, 1 + kept[n].dist>>]]

\* The try block of search_similar_chunks; raised marks an exception
\* leaving the block.
SearchBody(query, top_k, idx, pkl, n_loads) ==
    LET ld == LoadFaissIndex(idx, pkl, n_loads)
    IN  IF ~ld.ok
        THEN {Searched(query, top_k, FALSE, FALSE, FALSE, <<>>, <<>>,
                       ld.printed \cup {"FAISS index not found"}, ld.n_loads)}
        ELSE \* get_embedding(query) raises
             {Searched(query, top_k, TRUE, TRUE, FALSE, <<>>, <<>>, {}, ld.n_loads)}
             \cup
             {IF top_k <= 0
              THEN \* index.search asserts k > 0
                   Searched(query, top_k, TRUE, TRUE, TRUE, <<>>, <<>>, {}, ld.n_loads)
              ELSE Searched(query, top_k, FALSE, TRUE, TRUE,
                            IndexSearch(ld.index, v, top_k),
                            Results(IndexSearch(ld.index, v, top_k), ld.embedded_chunks),
                            {}, ld.n_loads)
              : v \in GetEmbedding(query)}

\* A variant without the except clause.
SearchSimilarChunksNoExcept(query, top_k, idx, pkl, n_loads) ==
    SearchBody(query, top_k, idx, pkl, n_loads)
\* search_similar_chunks: the except clause turns an exception into a
\* diagnostic and the empty list.
SearchSimilarChunks(query, top_k, idx, pkl, n_loads) ==
    {IF o.raised
     THEN [o EXCEPT !.raised = FALSE, !.results = <<>>,
                    !.printed = @ \cup {"Error searching similar chunks"}]
     ELSE o
     : o \in SearchBody(query, top_k, idx, pkl, n_loads)}

\* The record of one call of answer_question: the kind of text returned.
Answered(exc, answer, generation, printed, srch) ==
    [raised |-> exc, answer |-> answer, generation |-> generation,
     printed |-> printed, srch |-> srch]

\* The try block of answer_question.
AnswerBody(query, idx, pkl, n_loads) ==
    UNION {
      IF s.raised
      THEN {Answered(TRUE, "none", "none", s.printed, s)}
      ELSE IF s.results = <<>>
      THEN {Answered(FALSE, "no_information", "none", s.printed, s)}
      ELSE {\* client.chat.completions.create returns, or raises
            Answered(FALSE, "generated", "ok", s.printed, s),
            Answered(TRUE, "none", "failed", s.printed, s)}
      : s \in SearchSimilarChunks(query, 5, idx, pkl, n_loads)}

\* A variant without the except clause.
AnswerQuestionNoExcept(query, idx, pkl, n_loads) ==
    AnswerBody(query, idx, pkl, n_loads)
\* answer_question: the except clause returns the error message string.
AnswerQuestion(query, idx, pkl, n_loads) ==
    {IF a.raised
     THEN [a EXCEPT !.raised = FALSE, !.answer = "sorry",
                    !.printed = @ \cup {"Error answering question"}]
     ELSE a
     : a \in AnswerBody(query, idx, pkl, n_loads)}

\* str.lower, str.strip and the words that leave the loop.
UpperCase == <<"Q", "U", "I", "T", "E", "X">>
LowerCase == <<"q", "u", "i", "t", "e", "x">>
LowerChar(c) ==
    IF \E n \in 1..Len(UpperCase) : UpperCase[n] = c
    THEN LowerCase[CHOOSE n \in 1..Len(UpperCase) : UpperCase[n] = c]
    ELSE c
Lower(s) == [n \in 1..Len(s) |-> LowerChar(s[n])]
IsSpace(c) == c \in {" ", "\t", "\n"}
RECURSIVE LStrip(_)
LStrip(s) == IF s # <<>> /\ IsSpace(Head(s)) THEN LStrip(Tail(s)) ELSE s
RECURSIVE RStrip(_)
RStrip(s) ==
    IF s # <<>> /\ IsSpace(s[Len(s)]) THEN RStrip(SubSeq(s, 1, Len(s) - 1)) ELSE s
Strip(s) == RStrip(LStrip(s))
QuitWords == {<<"q", "u", "i", "t">>, <<"e", "x", "i", "t">>, <<"q">>}

\* The lines typed at the prompt.
Lines ==
    {<<"q", "u", "i", "t">>, <<"e", "x", "i", "t">>, <<"q">>, <<"Q">>,
     <<"q", " ">>, <<>>, <<" ">>, <<"?">>, <<"?", " ">>, <<"?", "a">>,
     <<" ", "?", " ", "b", " ">>, <<"a">>, <<" ", "b">>}

\* The record of one turn of the loop of interactive_search.
TurnOf(route, calls, printed, answer, srch, raised) ==
    [route |-> route, calls |-> calls, printed |-> printed, answer |-> answer,
     srch |-> srch, raised |-> raised]
NoTurn == TurnOf("none", <<>>, {}, "none", NoSearch, FALSE)

\* A variant that trims the line before every test and passes it on trimmed.
InteractiveSearchTrimFirst(query, idx, pkl, n_loads) ==
    IF Strip(query) \in QuitWords
    THEN {TurnOf("quit", <<>>, {"Exiting search"}, "none", NoSearch, FALSE)}
    ELSE IF Strip(query) = <<>>
    THEN {TurnOf("blank", <<>>, {"Please enter a valid query"}, "none", NoSearch, FALSE)}
    ELSE IF Head(Strip(query)) = "?"
    THEN {TurnOf("question", <<[fn |-> "answer_question", arg |-> Tail(Strip(query)), top_k |-> 0]>>,
                 a.printed, a.answer, a.srch, a.raised)
          : a \in AnswerQuestion(Tail(Strip(query)), idx, pkl, n_loads)}
    ELSE {TurnOf("search",
                 <<[fn |-> "search_similar_chunks", arg |-> Strip(query), top_k |-> 3]>>,
                 IF s.results = <<>>
                 THEN s.printed \cup {"No relevant results found"} ELSE s.printed,
                 "none", s, s.raised)
          : s \in SearchSimilarChunks(Strip(query), 3, idx, pkl, n_loads)}
\* One iteration of the while loop of interactive_search on the line read.
\* The rendering of the results, with its "See full content?" prompt,
\* changes no state and is left out.
InteractiveSearch(query, idx, pkl, n_loads) ==
    IF Lower(query) \in QuitWords
    THEN {TurnOf("quit", <<>>, {"Exiting search"}, "none", NoSearch, FALSE)}
    ELSE IF Strip(query) = <<>>
    THEN {TurnOf("blank", <<>>, {"Please enter a valid query"}, "none", NoSearch, FALSE)}
    ELSE IF Head(Strip(query)) = "?"
    THEN LET question == Strip(Tail(Strip(query)))
         IN  IF question = <<>>
             THEN {TurnOf("no_question", <<>>, {"Please provide a question"},
                          "none", NoSearch, FALSE)}
             ELSE {TurnOf("question",
                          <<[fn |-> "answer_question", arg |-> question, top_k |-> 0]>>,
                          a.printed, a.answer, a.srch, a.raised)
                   : a \in AnswerQuestion(question, idx, pkl, n_loads)}
    ELSE {TurnOf("search",
                 <<[fn |-> "search_similar_chunks", arg |-> query, top_k |-> 3]>>,
                 IF s.results = <<>>
                 THEN s.printed \cup {"No relevant results found"} ELSE s.printed,
                 "none", s, s.raised)
          : s \in SearchSimilarChunks(query, 3, idx, pkl, n_loads)}

VARIABLES
    content,         \* text of src/code_folder/content.txt
    max_chunk_size,  \* max_chunk_size of process_content_file
    index_file,      \* src/code_folder/embedding/content.index
    chunks_file,     \* src/code_folder/embedding/embedded_chunks.pkl
    pc,              \* position of the process: start, session, exit1, done, crashed
    ingest,          \* the ingestion run of this process, if any
    query,           \* the last line read by the session
    turn,            \* what the last turn of the session did
    n_search,        \* calls of search_similar_chunks in this process
    n_load           \* executions of load_faiss_index in this process

vars == <<content, max_chunk_size, index_file, chunks_file, pc, ingest,
          query, turn, n_search, n_load>>
disk == <<index_file, chunks_file>>
session == <<query, turn, n_search, n_load>>

Init ==
    /\ content \in Texts
    /\ max_chunk_size \in 1..MaxChunkSize
    /\ index_file = Absent
    /\ chunks_file = Absent
    /\ pc = "start"
    /\ ingest = NoRun
    /\ query = <<>>
    /\ turn = NoTurn
    /\ n_search = 0
    /\ n_load = 0

\* The main block up to the start of the session.
Main ==
    /\ pc = "start"
    /\ IF index_file.kind = "absent"
       THEN \E r \in ProcessContentFile(content, max_chunk_size, index_file, chunks_file) :
              /\ ingest' = r
              /\ index_file' = r.index_file
              /\ chunks_file' = r.chunks_file
              /\ pc' = IF r.ret THEN "session" ELSE "exit1"
       ELSE /\ pc' = "session"
            /\ UNCHANGED <<ingest, index_file, chunks_file>>
    /\ UNCHANGED <<content, max_chunk_size, session>>

\* One turn of the session: read a line and dispatch it.
Turn ==
    /\ pc = "session"
    /\ \E line \in Lines :
         \E t \in InteractiveSearch(line, index_file, chunks_file, n_load) :
            /\ t.srch.called => n_search < MaxSearches
            /\ query' = line
            /\ turn' = t
            /\ n_search' = IF t.srch.called THEN n_search + 1 ELSE n_search
            /\ n_load' = IF t.srch.called THEN t.srch.n_loads ELSE n_load
            /\ pc' = IF t.raised THEN "crashed"
                     ELSE IF t.route = "quit" THEN "done" ELSE "session"
    /\ UNCHANGED <<content, max_chunk_size, disk, ingest>>

\* The program is started again after it ended.
Relaunch ==
    /\ pc \in {"exit1", "done", "crashed"}
    /\ pc' = "start"
    /\ ingest' = NoRun
    /\ query' = <<>>
    /\ turn' = NoTurn
    /\ n_search' = 0
    /\ n_load' = 0
    /\ UNCHANGED <<content, max_chunk_size, disk>>

\* Between two runs the user edits the corpus file.  Only ingestion reads
\* the corpus, and the main block ingests only when content.index is absent:
\* an edit at any other time shows no earlier than one made then.
EditCorpus ==
    /\ pc = "start"
    /\ index_file.kind = "absent"
    /\ content' \in Texts \ {content}
    /\ UNCHANGED <<max_chunk_size, disk, pc, ingest, session>>

\* Between two runs the user deletes an artifact file (deleting
\* content.index is what makes the main block ingest again).
DeleteArtifact ==
    /\ pc = "start"
    /\ \/ index_file.kind # "absent" /\ index_file' = Absent /\ UNCHANGED chunks_file
       \/ chunks_file.kind # "absent" /\ chunks_file' = Absent /\ UNCHANGED index_file
    /\ UNCHANGED <<content, max_chunk_size, pc, ingest, session>>

Next == Main \/ Turn \/ Relaunch \/ EditCorpus \/ DeleteArtifact

Spec == Init /\ [][Next]_vars

(***************************************************************************)
(* Properties.                                                             *)
(***************************************************************************)
RECURSIVE Concat(_)
Concat(ss) == IF ss = <<>> THEN <<>> ELSE Head(ss) \o Concat(Tail(ss))

\* The texts of the chunks a run built, once every chunk was embedded.
Embedded == ingest.ran /\ ingest.fault \notin {"read", "embed"}
ChunkTextsBuilt ==
    [j \in 1..Len(ingest.embedded_chunks) |-> ingest.embedded_chunks[j].text]

\* C1: the chunks produced by ingestion are an ordered partition of the
\* corpus: their concatenation is the corpus, none is longer than
\* max_chunk_size, and a corpus no longer than max_chunk_size gives exactly
\* one chunk, equal to the corpus.
C1_ChunksPartitionContent ==
    Embedded =>
        /\ Concat(ChunkTextsBuilt) = content
        /\ \A j \in 1..Len(ChunkTextsBuilt) : Len(ChunkTextsBuilt[j]) <= max_chunk_size
        /\ Len(content) <= max_chunk_size => ChunkTextsBuilt = <<content>>
        /\ ingest.chunks = ChunkTextsBuilt

\* A run that split the corpus into full windows and a shorter last one.
C1_Witness ==
    /\ Embedded /\ ingest.ret
    /\ Len(ChunkTextsBuilt) = 2
    /\ Len(ChunkTextsBuilt[1]) = max_chunk_size
    /\ Len(ChunkTextsBuilt[2]) < max_chunk_size

\* C2 as claimed: the id of every chunk is its 1-based position, also when
\* the corpus fits in a single chunk.
C2_IdIsPosition ==
    ingest.ran =>
        \A j \in 1..Len(ingest.embedded_chunks) :
            ingest.embedded_chunks[j].chunk_id = Str(j)

\* C2 as amended: the id of every chunk is its 1-based position when the
\* corpus is longer than max_chunk_size; a corpus that fits in a single
\* chunk gives that chunk the id 'full'.
C2_IdIsPositionOrFull ==
    ingest.ran =>
        \A j \in 1..Len(ingest.embedded_chunks) :
            ingest.embedded_chunks[j].chunk_id =
                IF Len(content) > max_chunk_size THEN Str(j) ELSE Full

\* A run that numbered three chunks.
C2_Witness ==
    /\ ingest.ran /\ ingest.ret
    /\ Len(ingest.embedded_chunks) = 3
    /\ ingest.embedded_chunks[3].chunk_id = <<"3">>

\* C3 as claimed: an ingestion run over an empty corpus, or one in which a
\* step fails, reports failure and leaves both artifact files as they were;
\* only a fully successful run replaces both files.
C3_AllOrNothing ==
    [][(pc = "start" /\ ingest'.ran) =>
          /\ (content = <<>> \/ ingest'.fault # "none") =>
                /\ ~ingest'.ret
                /\ index_file' = index_file
                /\ chunks_file' = chunks_file
          /\ ingest'.ret =>
                /\ index_file' = IndexFile(StoreInFaiss(ingest'.embedded_chunks))
                /\ chunks_file' = PickleFile(ingest'.embedded_chunks)]_vars

\* The files read by the search of the last turn are both readable.
Readable == index_file.kind = "index" /\ chunks_file.kind = "pickle"

\* C4: search_similar_chunks never raises; when an artifact file is missing
\* or unreadable, or embedding the query fails, it returns the empty list;
\* and it leaves the artifact files unchanged.
C4_SearchNeverRaises ==
    [][(pc = "session" /\ turn'.srch.called) =>
          /\ ~turn'.srch.raised
          /\ (~Readable \/ ~turn'.srch.embedded) => turn'.srch.results = <<>>
          /\ index_file' = index_file
          /\ chunks_file' = chunks_file]_vars

\* A search over a readable pair whose query could not be embedded.
C4_Witness ==
    /\ turn.srch.called /\ Readable
    /\ ~turn.srch.embedded
    /\ turn.srch.results = <<>>
    /\ pc = "session"

\* C5 as claimed: a search over a loaded index with count vectors returns
\* exactly min(k, count) results (none when k <= 0 or the index is empty),
\* in non-decreasing distance, equal distances by ascending position.
C5_SearchOrderAndCount ==
    (turn.srch.called /\ turn.srch.loaded /\ turn.srch.embedded) =>
        LET res == turn.srch.results
            hits == turn.srch.hits
            count == Len(index_file.data)
            k == turn.srch.top_k
        IN  /\ Len(res) = IF k <= 0 THEN 0 ELSE Min(k, count)
            /\ \A n \in 1..Len(res) :
                  /\ hits[n].idx \in 0..(count - 1)
                  /\ res[n].similarity =
                        <<1, 1 + Dist(index_file.data[hits[n].idx + 1],
                                      Embedding(NormalizeNewlines(turn.srch.query)))>>
            /\ \A m, n \in 1..Len(res) :
                  m < n =>
                     \/ res[m].similarity[2] < res[n].similarity[2]
                     \/ /\ res[m].similarity[2] = res[n].similarity[2]
                        /\ hits[m].idx < hits[n].idx

\* C6 as claimed: in one process lifetime the artifact pair is loaded from
\* disk at most once.
C6_LoadedAtMostOnce == n_load <= 1

\* C6 as amended: no copy of the loaded pair is kept between calls; every
\* call of search_similar_chunks loads the artifact files from disk again,
\* so a process has loaded them as many times as it has searched.
C6_EverySearchLoads ==
    /\ n_load = n_search
    /\ turn.srch.called => turn.srch.n_loads = n_load

\* A process that searched twice and loaded twice.
C6_Witness == n_search = 2 /\ n_load = 2 /\ turn.srch.loaded

\* C7 as claimed: loading succeeds exactly when both files are present and
\* deserialize and the number of chunk records equals the number of vectors.
C7_LoadChecksCount ==
    turn.srch.called =>
        (turn.srch.loaded <=>
            (Readable /\ Len(chunks_file.data) = Len(index_file.data)))

\* C7 as amended: loading fails whenever either file is missing or does not
\* deserialize, and succeeds whenever both deserialize; the numbers of chunk
\* records and of vectors are not compared.
C7_LoadFailsOnMissingOrCorrupt ==
    turn.srch.called => (turn.srch.loaded <=> Readable)

\* A load that succeeded with fewer chunk records than vectors.
C7_Witness ==
    /\ turn.srch.called /\ turn.srch.loaded
    /\ Len(chunks_file.data) < Len(index_file.data)

\* The routes of a turn, read from what the turn did.
Quitted == pc = "done" /\ turn.calls = <<>>
Reprompted == pc = "session" /\ turn.calls = <<>> /\ ~turn.srch.called
Asked(question) ==
    /\ Len(turn.calls) = 1
    /\ turn.calls[1].fn = "answer_question"
    /\ turn.calls[1].arg = question
SearchedFor(line) ==
    /\ Len(turn.calls) = 1
    /\ turn.calls[1].fn = "search_similar_chunks"
    /\ turn.calls[1].arg = line
    /\ turn.calls[1].top_k = 3
    /\ turn.srch.top_k = 3

\* C8 as claimed: the line is trimmed first; a trimmed line equal to quit,
\* exit or q ends the loop, a blank one reprompts without a call, one
\* starting with ? calls answer_question with the prefix stripped, any
\* other calls search_similar_chunks with k = 3.
C8_TrimThenDispatch ==
    turn.route # "none" =>
        IF Strip(query) \in QuitWords THEN Quitted
        ELSE IF Strip(query) = <<>> THEN Reprompted
        ELSE IF Head(Strip(query)) = "?"
        THEN Asked(Tail(Strip(query))) \/ Asked(Strip(Tail(Strip(query))))
        ELSE SearchedFor(query) \/ SearchedFor(Strip(query))

\* C8 as amended: every turn takes exactly one route.  The untrimmed line,
\* lower-cased, equal to quit, exit or q ends the loop; otherwise a line
\* blank after trimming reprompts without a call; otherwise a trimmed line
\* starting with ? calls answer_question with the prefix stripped and the
\* rest trimmed, or reprompts without a call when nothing is left;
\* any other line calls search_similar_chunks with the untrimmed line and
\* k = 3.
C8_DispatchAsCoded ==
    turn.route # "none" =>
        IF Lower(query) \in QuitWords THEN Quitted
        ELSE IF Strip(query) = <<>> THEN Reprompted
        ELSE IF Head(Strip(query)) = "?"
        THEN IF Strip(Tail(Strip(query))) = <<>>
             THEN Reprompted
             ELSE Asked(Strip(Tail(Strip(query)))) /\ turn.srch.top_k = 5
        ELSE SearchedFor(query)

\* A quit word followed by a space was searched for, untrimmed.
C8_Witness ==
    /\ query = <<"q", " ">>
    /\ SearchedFor(<<"q", " ">>)
    /\ pc = "session"

\* A failure of the last turn: the artifacts did not load, the query could
\* not be embedded, or the generation call failed.
LoadFailed == turn.srch.called /\ ~turn.srch.loaded
EmbedFailed == turn.srch.called /\ turn.srch.loaded /\ ~turn.srch.embedded
GenerationFailed == turn.answer = "sorry"

\* C9: no failure of a query ends the session: after a turn in which the
\* artifacts were missing or the embedding or generation call failed, a
\* diagnostic was printed and the session is at its prompt again; the
\* session ends only by the quit route.
C9_FailuresKeepSession ==
    /\ pc # "crashed"
    /\ pc = "done" => turn.route = "quit" /\ Lower(query) \in QuitWords
    /\ LoadFailed => pc = "session" /\ "FAISS index not found" \in turn.printed
    /\ EmbedFailed =>
          pc = "session" /\ "Error searching similar chunks" \in turn.printed
    /\ GenerationFailed =>
          pc = "session" /\ "Error answering question" \in turn.printed

\* A question turn whose generation call failed, back at the prompt.
C9_Witness ==
    /\ turn.route = "question"
    /\ GenerationFailed
    /\ turn.srch.results # <<>>
    /\ pc = "session"

\* C10 as claimed: a start with either artifact file absent runs ingestion
\* first; the session is entered only with both files present, and never
\* after a failed ingestion.
C10_ColdStartIngests ==
    [][pc = "start" /\ pc' # "start" =>
          /\ (index_file.kind = "absent" \/ chunks_file.kind = "absent") => ingest'.ran
          /\ pc' = "session" =>
                index_file'.kind # "absent" /\ chunks_file'.kind # "absent"
          /\ (ingest'.ran /\ ~ingest'.ret) => pc' = "exit1"]_vars

\* C11: after a successful ingestion run the persisted pair has as many
\* chunk records as vectors, chunk i is the i-th window of the corpus, and
\* the vector at position i is the embedding of chunk i; every result of a
\* search over that pair carries the id and text of the chunk recorded at
\* the returned position and the distance of the vector stored there.
C11_PairAlignedAfterIngestion ==
    (ingest.ran /\ ingest.ret) =>
        /\ Readable
        /\ Len(chunks_file.data) = Len(index_file.data)
        /\ \A i \in 1..Len(chunks_file.data) :
              /\ chunks_file.data[i].text =
                    Slice(content, (i - 1) * max_chunk_size, i * max_chunk_size)
              /\ chunks_file.data[i].embedding =
                    Embedding(NormalizeNewlines(chunks_file.data[i].text))
              /\ index_file.data[i] = chunks_file.data[i].embedding
        /\ (turn.srch.called /\ turn.srch.embedded) =>
              LET res == turn.srch.results
                  hits == turn.srch.hits
                  q == Embedding(NormalizeNewlines(turn.srch.query))
              IN  /\ Len(res) = Cardinality({n \in 1..Len(hits) : hits[n].idx >= 0})
                  /\ \A n \in 1..Len(res) :
                        /\ res[n].chunk_id = chunks_file.data[hits[n].idx + 1].chunk_id
                        /\ res[n].text = chunks_file.data[hits[n].idx + 1].text
                        /\ res[n].similarity =
                              <<1, 1 + Dist(Embedding(NormalizeNewlines(res[n].text)), q)>>

\* A search, in the process that ingested a corpus of chunks with
\* different embeddings, whose first result is not the first chunk.
C11_Witness ==
    /\ ingest.ran /\ ingest.ret
    /\ Len(chunks_file.data) >= 2
    /\ turn.srch.called /\ Len(turn.srch.results) >= 2
    /\ turn.srch.hits[1].idx > 0
    /\ turn.srch.results[1].similarity # turn.srch.results[2].similarity
====
